---- MODULE Spec2Model ----
(***************************************************************************)
(* Model of the math-quest part of src/bot.py: the answer evaluator        *)
(* (is_answer_correct), the leaderboard read-modify-write                  *)
(* (update_leaderboard), the attempt log (log_question), the mathquest     *)
(* command and the on_message handler with its help-mode and quiz          *)
(* branches.  Handlers are asyncio tasks: one action per stretch of code   *)
(* between two awaits; the two storage calls run in executor threads and   *)
(* are split at their database operations.                                *)
(*                                                                         *)
(* Strings are sequences of one-character strings.                         *)
(***************************************************************************)
EXTENDS Integers, Sequences, FiniteSets, TLC

(***************************************************************************)
(* Characters and string helpers (str.lower, str.strip, str.replace,       *)
(* str.split, the `in` substring test).                                    *)
(***************************************************************************)
UpperLetters == <<"A","B","C","D","E","F","G","H","I","J","K","L","M",
                  "N","O","P","Q","R","S","T","U","V","W","X","Y","Z">>

LowerLetters == <<"a","b","c","d","e","f","g","h","i","j","k","l","m",
                  "n","o","p","q","r","s","t","u","v","w","x","y","z">>

Digits == <<"0","1","2","3","4","5","6","7","8","9">>

Whitespace == {" ", "\t", "\n"}

Range(s) == {s[i] : i \in 1..Len(s)}

\* str.isalpha for one character of the modelled alphabet
IsAlpha(c) == c \in Range(LowerLetters) \cup Range(UpperLetters)

\* one character of str.lower()
LowerChar(c) ==
    IF c \in Range(UpperLetters)
    THEN LowerLetters[CHOOSE i \in 1..26 : UpperLetters[i] = c]
    ELSE c

\* str.lower()
Lower(s) == [i \in 1..Len(s) |-> LowerChar(s[i])]

RECURSIVE LStrip(_)
LStrip(s) ==
    IF s # <<>> /\ Head(s) \in Whitespace THEN LStrip(Tail(s)) ELSE s

RECURSIVE RStrip(_)
RStrip(s) ==
    IF s # <<>> /\ s[Len(s)] \in Whitespace
    THEN RStrip(SubSeq(s, 1, Len(s) - 1))
    ELSE s

\* str.strip()
Strip(s) == RStrip(LStrip(s))

\* str.replace(c, '') for a one-character c
RemoveChar(s, c) == SelectSeq(s, LAMBDA x : x # c)

\* line 469 leaving the caret in place
KeepCaret(s) == s

RECURSIVE ReplaceCaret(_)
\* str.replace('^', '**')
ReplaceCaret(s) ==
    IF s = <<>> THEN <<>>
    ELSE IF Head(s) = "^" THEN <<"*", "*">> \o ReplaceCaret(Tail(s))
    ELSE <<Head(s)>> \o ReplaceCaret(Tail(s))

\* s starts with the string p
StartsWith(s, p) == Len(p) <= Len(s) /\ SubSeq(s, 1, Len(p)) = p

\* the `p in s` substring test
Contains(s, p) ==
    \E i \in 1..(Len(s) + 1) :
        i + Len(p) - 1 <= Len(s) /\ SubSeq(s, i, i + Len(p) - 1) = p

\* the separator of the accepted-answer encoding
OrSeparator == <<" ", "o", "r", " ">>

RECURSIVE SplitOr(_)
\* str.split(' or '), as the set of its pieces
SplitOr(s) ==
    IF ~Contains(s, OrSeparator) THEN {s}
    ELSE LET i == CHOOSE k \in 1..Len(s) :
                     /\ StartsWith(SubSeq(s, k, Len(s)), OrSeparator)
                     /\ \A j \in 1..(k - 1) :
                            ~StartsWith(SubSeq(s, j, Len(s)), OrSeparator)
         IN {SubSeq(s, 1, i - 1)} \cup SplitOr(SubSeq(s, i + 4, Len(s)))

(***************************************************************************)
(* float(): the decimal literals [+-]digits[.digits] and [+-].digits as    *)
(* exact fractions num/den.  Exponents, inf, nan and digit-group           *)
(* underscores are not part of the modelled alphabet.                      *)
(***************************************************************************)
DigitValue(c) == (CHOOSE i \in 1..10 : Digits[i] = c) - 1

IsDigits(s) == \A i \in 1..Len(s) : s[i] \in Range(Digits)

RECURSIVE DigitsValue(_)
DigitsValue(s) ==
    IF s = <<>> THEN 0
    ELSE 10 * DigitsValue(SubSeq(s, 1, Len(s) - 1)) + DigitValue(s[Len(s)])

RECURSIVE Pow10(_)
Pow10(n) == IF n = 0 THEN 1 ELSE 10 * Pow10(n - 1)

NotANumber == [ok |-> FALSE, num |-> 0, den |-> 1]

\* float() of an unsigned literal
ParseUnsigned(s) ==
    LET dots == {i \in 1..Len(s) : s[i] = "."}
    IN IF dots = {}
       THEN IF s # <<>> /\ IsDigits(s)
            THEN [ok |-> TRUE, num |-> DigitsValue(s), den |-> 1]
            ELSE NotANumber
       ELSE IF Cardinality(dots) > 1 THEN NotANumber
       ELSE LET d == CHOOSE i \in dots : TRUE
                ip == SubSeq(s, 1, d - 1)
                fp == SubSeq(s, d + 1, Len(s))
            IN IF IsDigits(ip) /\ IsDigits(fp) /\ Len(ip) + Len(fp) > 0
               THEN [ok |-> TRUE,
                     num |-> DigitsValue(ip) * Pow10(Len(fp)) + DigitsValue(fp),
                     den |-> Pow10(Len(fp))]
               ELSE NotANumber

\* float(s): surrounding whitespace is accepted, then an optional sign
ParseFloat(s) ==
    LET t == Strip(s)
    IN IF t = <<>> THEN NotANumber
       ELSE IF Head(t) = "-"
            THEN LET r == ParseUnsigned(Tail(t))
                 IN [ok |-> r.ok, num |-> 0 - r.num, den |-> r.den]
       ELSE IF Head(t) = "+" THEN ParseUnsigned(Tail(t))
       ELSE ParseUnsigned(t)

Abs(x) == IF x < 0 THEN 0 - x ELSE x

Max(a, b) == IF a >= b THEN a ELSE b

\* 1/tolerance for the default tolerance 1e-6
ToleranceInverse == 1000000

\* math.isclose with the absolute tolerance alone
IsCloseAbsolute(a, b) ==
    Abs(a.num * b.den - b.num * a.den) <= (a.den * b.den) \div ToleranceInverse

\* math.isclose(a, b, rel_tol=tol, abs_tol=tol) on exact fractions:
\* |a-b| <= max(tol*max(|a|,|b|), tol), cross-multiplied by the denominators
IsClose(a, b) ==
    LET diff  == Abs(a.num * b.den - b.num * a.den)
        bound == Max(Max(Abs(a.num) * b.den, Abs(b.num) * a.den), a.den * b.den)
    IN diff <= bound \div ToleranceInverse

(***************************************************************************)
(* The symbolic step calls the CAS (sympy parse_expr, expand, simplify).   *)
(* Its verdicts are tabulated for the pairs of strings (lowercased,        *)
(* trimmed, '^' replaced by '**') that the model feeds it; every other     *)
(* pair either fails to parse or has a non-zero difference.                *)
(***************************************************************************)
\* candidate answers given to is_answer_correct
EvalCandidates ==
    {"", "   ", "5", "X=5", "6", "5.0", "78.5399", "79",
     "78.54005", "1,000.0", "(x-3)(x+3)", "x**2 - x - 6",
     "x**2 + x - 6", "(x", "x**2-9", "  X = 5 "}

\* accepted-answer strings given to is_answer_correct
EvalAccepted ==
    {"42", "5 or x=5", "x=5 or 5", "78.54",
     "1,000 or one thousand", "(x+3)(x-3)", "x^2 - x - 6",
     "(x+3)(x-3 or (x-3)(x+3)"}

\* the strings whose parse by the CAS is tabulated below
CasTabulated ==
    {"x=5", "x = 5", "(x-3)(x+3)", "(x+3)(x-3)", "x**2 - x - 6",
     "x**2 + x - 6", "x**2-9", "(x", "(x+3)(x-3"}

\* the strings given to the evaluator and to the CAS, as characters
Text ==
    [str \in EvalCandidates \cup EvalAccepted \cup CasTabulated |->
        CASE str = "" -> <<>>
          [] str = "   " -> <<" ", " ", " ">>
          [] str = "5" -> <<"5">>
          [] str = "X=5" -> <<"X", "=", "5">>
          [] str = "6" -> <<"6">>
          [] str = "5.0" -> <<"5", ".", "0">>
          [] str = "78.5399" -> <<"7", "8", ".", "5", "3", "9", "9">>
          [] str = "79" -> <<"7", "9">>
          [] str = "78.54005" -> <<"7", "8", ".", "5", "4", "0", "0", "5">>
          [] str = "1,000.0" -> <<"1", ",", "0", "0", "0", ".", "0">>
          [] str = "(x-3)(x+3)" -> <<"(", "x", "-", "3", ")", "(", "x", "+", "3", ")">>
          [] str = "x**2 - x - 6" -> <<"x", "*", "*", "2", " ", "-", " ", "x", " ", "-", " ", "6">>
          [] str = "x**2 + x - 6" -> <<"x", "*", "*", "2", " ", "+", " ", "x", " ", "-", " ", "6">>
          [] str = "(x" -> <<"(", "x">>
          [] str = "x**2-9" -> <<"x", "*", "*", "2", "-", "9">>
          [] str = "42" -> <<"4", "2">>
          [] str = "5 or x=5" -> <<"5", " ", "o", "r", " ", "x", "=", "5">>
          [] str = "x=5 or 5" -> <<"x", "=", "5", " ", "o", "r", " ", "5">>
          [] str = "78.54" -> <<"7", "8", ".", "5", "4">>
          [] str = "1,000 or one thousand" -> <<"1", ",", "0", "0", "0", " ", "o", "r", " ", "o", "n", "e", " ", "t", "h", "o", "u", "s", "a", "n", "d">>
          [] str = "(x+3)(x-3)" -> <<"(", "x", "+", "3", ")", "(", "x", "-", "3", ")">>
          [] str = "x^2 - x - 6" -> <<"x", "^", "2", " ", "-", " ", "x", " ", "-", " ", "6">>
          [] str = "(x+3)(x-3 or (x-3)(x+3)" -> <<"(", "x", "+", "3", ")", "(", "x", "-", "3", " ", "o", "r", " ", "(", "x", "-", "3", ")", "(", "x", "+", "3", ")">>
          [] str = "x=5" -> <<"x", "=", "5">>
          [] str = "  X = 5 " -> <<" ", " ", "X", " ", "=", " ", "5", " ">>
          [] str = "x = 5" -> <<"x", " ", "=", " ", "5">>
          [] str = "(x+3)(x-3" -> <<"(", "x", "+", "3", ")", "(", "x", "-", "3">>]

\* sp.parse_expr(s, transformations='all', evaluate=False), lines 479-480
\* and 492-493, tabulated: a polynomial in x as its coefficients (constant
\* first), an equation as its two sides; a string with an unbalanced
\* parenthesis makes the tokenizer raise TokenError, which is none of
\* SympifyError, SyntaxError, TypeError, NotImplementedError; a string that
\* is not tabulated counts as one that fails with one of these four
parse_expr(s) ==
    CASE s = Text["(x-3)(x+3)"]   -> [kind |-> "expression", lhs |-> <<-9, 0, 1>>, rhs |-> <<0, 0, 0>>]
      [] s = Text["(x+3)(x-3)"]   -> [kind |-> "expression", lhs |-> <<-9, 0, 1>>, rhs |-> <<0, 0, 0>>]
      [] s = Text["x**2-9"]       -> [kind |-> "expression", lhs |-> <<-9, 0, 1>>, rhs |-> <<0, 0, 0>>]
      [] s = Text["x**2 - x - 6"] -> [kind |-> "expression", lhs |-> <<-6, -1, 1>>, rhs |-> <<0, 0, 0>>]
      [] s = Text["x**2 + x - 6"] -> [kind |-> "expression", lhs |-> <<-6, 1, 1>>, rhs |-> <<0, 0, 0>>]
      [] s = Text["x=5"]          -> [kind |-> "equation", lhs |-> <<0, 1, 0>>, rhs |-> <<5, 0, 0>>]
      [] s = Text["x = 5"]        -> [kind |-> "equation", lhs |-> <<0, 1, 0>>, rhs |-> <<5, 0, 0>>]
      [] s = Text["(x"]           -> [kind |-> "TokenError", lhs |-> <<0, 0, 0>>, rhs |-> <<0, 0, 0>>]
      [] s = Text["(x+3)(x-3"]    -> [kind |-> "TokenError", lhs |-> <<0, 0, 0>>, rhs |-> <<0, 0, 0>>]
      [] OTHER                    -> [kind |-> "SyntaxError", lhs |-> <<0, 0, 0>>, rhs |-> <<0, 0, 0>>]

\* difference of two polynomials, coefficient by coefficient
PolySub(a, b) == [i \in DOMAIN a |-> a[i] - b[i]]

\* sp.expand(...) == 0, and simplify(expand(...)) being zero
IsZeroPoly(a) == \A i \in DOMAIN a : a[i] = 0

\* the exception is caught by neither except clause of lines 487 and 507
RaisesUnexpected(s) == parse_expr(s).kind = "TokenError"

\* pairs (candidate, accepted) of equations whose sides differ by zero
EquivalentEquations ==
    {pair \in {Text[str] : str \in CasTabulated} \X {Text[str] : str \in CasTabulated} :
        /\ parse_expr(pair[1]).kind = "equation"
        /\ parse_expr(pair[2]).kind = "equation"
        /\ IsZeroPoly(PolySub(PolySub(parse_expr(pair[1]).lhs, parse_expr(pair[1]).rhs),
                              PolySub(parse_expr(pair[2]).lhs, parse_expr(pair[2]).rhs)))}

\* pairs (candidate, accepted) of expressions with simplify(expand(a - b)) = 0
EquivalentExpressions ==
    {pair \in {Text[str] : str \in CasTabulated} \X {Text[str] : str \in CasTabulated} :
        /\ parse_expr(pair[1]).kind = "expression"
        /\ parse_expr(pair[2]).kind = "expression"
        /\ IsZeroPoly(PolySub(parse_expr(pair[1]).lhs, parse_expr(pair[2]).lhs))}

\* lines 477-488: both strings parse to Equality and the expanded difference
\* of their sides is zero
SympyEquationsEquivalent(user_expr, possible_expr) ==
    <<user_expr, possible_expr>> \in EquivalentEquations

\* lines 493-505: the simplified, expanded difference is zero
SympyExpressionsEquivalent(user_expr, possible_expr) ==
    <<user_expr, possible_expr>> \in EquivalentExpressions

AlgebraSymbols == {"(", ")", "^", "*", "/", "+", "-", "="}

\* the heuristic of lines 450-452 and 458
LooksAlgebraic(s) ==
    \E i \in 1..Len(s) : IsAlpha(s[i]) \/ s[i] \in AlgebraSymbols

\* step 1 taking the accepted string as one form
PossibleAnswersUnsplit(correct_answer_str) == {Strip(Lower(correct_answer_str))}

\* step 1: the accepted forms
PossibleAnswers(correct_answer_str) ==
    {Strip(ans) : ans \in SplitOr(Strip(Lower(correct_answer_str)))}

\* step 2: numeric comparison against every accepted form that is a number
NumericMatch(user_ans_norm, possible_answers) ==
    LET user_num == ParseFloat(RemoveChar(user_ans_norm, ","))
    IN /\ user_num.ok
       /\ \E possible \in possible_answers :
              LET correct_num == ParseFloat(RemoveChar(possible, ","))
              IN correct_num.ok /\ IsClose(user_num, correct_num)

\* step 3, one pair
SymbolicPairMatch(user_ans_norm, possible) ==
    LET user_expr_sympy_str     == ReplaceCaret(user_ans_norm)
        possible_expr_sympy_str == ReplaceCaret(possible)
    IN IF "=" \in Range(user_expr_sympy_str) /\ "=" \in Range(possible_expr_sympy_str)
       THEN \/ user_expr_sympy_str = possible_expr_sympy_str
            \/ SympyEquationsEquivalent(user_expr_sympy_str, possible_expr_sympy_str)
       ELSE SympyExpressionsEquivalent(user_expr_sympy_str, possible_expr_sympy_str)

\* step 3, one pair: parse_expr raises an exception that the except clauses
\* of lines 487 and 507 do not name; the literal test of line 474 comes
\* before any parsing
SymbolicPairRaises(user_ans_norm, possible) ==
    LET user_expr_sympy_str     == ReplaceCaret(user_ans_norm)
        possible_expr_sympy_str == ReplaceCaret(possible)
    IN /\ \/ RaisesUnexpected(user_expr_sympy_str)
          \/ RaisesUnexpected(possible_expr_sympy_str)
       /\ ~(/\ "=" \in Range(user_expr_sympy_str)
            /\ "=" \in Range(possible_expr_sympy_str)
            /\ user_expr_sympy_str = possible_expr_sympy_str)

\* step 3: symbolic comparison against the accepted forms that look algebraic
SymbolicMatch(user_ans_norm, possible_answers) ==
    LET algebraic_possible_answers == {p \in possible_answers : LooksAlgebraic(p)}
    IN /\ LooksAlgebraic(user_ans_norm)
       /\ \E possible \in algebraic_possible_answers :
              SymbolicPairMatch(user_ans_norm, possible)

\* lines 419 and 422 without the trimming
LowerOnly(s) == Lower(s)

\* lines 419 and 422 trimming one character at each end
LowerTrimOne(s) ==
    LET low  == Lower(s)
        left == IF low # <<>> /\ Head(low) \in Whitespace THEN Tail(low) ELSE low
    IN IF left # <<>> /\ left[Len(left)] \in Whitespace
       THEN SubSeq(left, 1, Len(left) - 1) ELSE left

\* lines 419 and 422: .lower().strip()
Normalize(s) == Strip(Lower(s))

\* the verdict when no pair raises an unexpected exception; with such a pair
\* among the algebraic forms the loop of line 463 ends at it, and the
\* verdict is that of the forms iterated before it (the steps Eval... below)
is_answer_correct(user_answer, correct_answer_str) ==
    LET user_ans_norm    == Strip(Lower(user_answer))
        possible_answers == PossibleAnswers(correct_answer_str)
    IN IF user_ans_norm = <<>> THEN FALSE
       ELSE \/ user_ans_norm \in possible_answers
            \/ NumericMatch(user_ans_norm, possible_answers)
            \/ SymbolicMatch(user_ans_norm, possible_answers)

(***************************************************************************)
(* Program constants.                                                      *)
(***************************************************************************)
\* bot.math_help_triggers
math_help_triggers ==
    { <<"h","e","l","p"," ","w","i","t","h"," ","m","a","t","h">>,
      <<"m","a","t","h"," ","q","u","e","s","t","i","o","n">>,
      <<"s","o","l","v","e"," ","t","h","i","s">>,
      <<"h","o","w"," ","t","o"," ","c","a","l","c","u","l","a","t","e">>,
      <<"m","a","t","h"," ","h","e","l","p">>,
      <<"s","o","l","v","e"," ","f","o","r">>,
      <<"h","o","w"," ","d","o"," ","i"," ","s","o","l","v","e">>,
      <<"c","a","l","c","u","l","a","t","e">>,
      <<"m","a","t","h"," ","p","r","o","b","l","e","m">> }

\* the cancel words of the help-mode block
CancelWords ==
    { <<"c","a","n","c","e","l">>, <<"s","t","o","p">>, <<"d","o","n","e">>, <<"e","x","i","t">> }

\* the questions of math_questions the model draws from
Questions ==
    {"Solve for x: 3x + 5 = 20",
     "Length of the hypotenuse for a right triangle with legs 3 and 4"}

\* math_questions: question -> accepted-answer string
math_questions ==
    [q \in Questions |->
        IF q = "Solve for x: 3x + 5 = 20" THEN "5 or x=5" ELSE "5"]

\* bot.command_prefix
CommandPrefix == <<"!">>

\* names of registered commands (lookup is case-insensitive)
CommandNames ==
    { <<"m","a","t","h","q","u","e","s","t">>, <<"s","o","l","v","e">>, <<"m","y","s","t","a","t","s">>, <<"m","a","t","h","l","e","a","d","e","r","s">> }

MathquestName == <<"m","a","t","h","q","u","e","s","t">>

Users == {"u1", "u2"}

\* message contents the users send
Contents == {"5.0", "Cancel", "calculate 2+2", "!mathquest"}

\* the characters of the strings above
Chars ==
    [str \in Contents \cup {math_questions[q] : q \in Questions} |->
        CASE str = "5.0" -> <<"5",".","0">>
          [] str = "Cancel" -> <<"C","a","n","c","e","l">>
          [] str = "calculate 2+2" -> <<"c","a","l","c","u","l","a","t","e"," ","2","+","2">>
          [] str = "!mathquest" -> <<"!","m","a","t","h","q","u","e","s","t">>
          [] str = "5 or x=5" -> <<"5"," ","o","r"," ","x","=","5">>
          [] str = "5" -> <<"5">>]

(***************************************************************************)
(* Bounds of the model.                                                    *)
(***************************************************************************)
\* answers graded in one run
MaxGraded == 2

\* database operations that fail in one run
MaxFailures == 1

(***************************************************************************)
(* State.                                                                  *)
(***************************************************************************)
VARIABLES
    math_answers,        \* bot.math_answers: user -> posed question
    question_streaks,    \* bot.question_streaks: user -> live streak
    conversation_states, \* bot.conversation_states: user -> mode
    leaderboard,         \* table leaderboard: user -> row
    question_history,    \* table question_history, in insertion order
    tasks,               \* handlers suspended at an await, in arrival order
    graded_count,        \* answers graded so far
    failures,            \* database operations that failed so far
    senders,             \* the users who send messages in this run
    evaluation           \* a call of is_answer_correct: arguments, position, result

vars == <<math_answers, question_streaks, conversation_states, leaderboard,
          question_history, tasks, graded_count, failures, senders, evaluation>>

\* dict[k] = v
DictSet(d, k, v) == [x \in (DOMAIN d) \cup {k} |-> IF x = k THEN v ELSE d[x]]

\* del dict[k]
DictDel(d, k) == [x \in (DOMAIN d) \ {k} |-> d[x]]

EmptyDict == [x \in {} |-> 0]

\* fetchone() returning None
NoRow == [found |-> FALSE, points |-> 0, highest_streak |-> 0, total_correct |-> 0]

Row(p, h, c) == [found |-> TRUE, points |-> p, highest_streak |-> h, total_correct |-> c]

\* SELECT points, highest_streak, total_correct FROM leaderboard WHERE user_id = ?
SelectRow(board, user_id) ==
    IF user_id \in DOMAIN board THEN board[user_id] ELSE NoRow

\* positions of the handlers in flight: each one graded an answer
TaskIds == 1..MaxGraded

\* the handler t is suspended before the step pc
At(t, pc) == t \in DOMAIN tasks /\ tasks[t].pc = pc

\* the handler t has returned (or raised)
TaskEnds(t) == [i \in 1..(Len(tasks) - 1) |-> IF i < t THEN tasks[i] ELSE tasks[i + 1]]

(***************************************************************************)
(* Variants of the definitions below, each differing in the one place a    *)
(* property depends on; the property must tell the variant from the code.  *)
(***************************************************************************)
\* update_leaderboard without the floor max(0, ...) on the points
update_leaderboard_unclamped(result, points_change, correct_answer, current_streak) ==
    [found |-> TRUE,
     points |-> (IF result.found THEN result.points ELSE 0) + points_change,
     highest_streak |-> IF result.found /\ result.highest_streak > current_streak
                        THEN result.highest_streak ELSE current_streak,
     total_correct |-> (IF result.found THEN result.total_correct ELSE 0)
                           + (IF correct_answer THEN 1 ELSE 0)]

\* the upsert storing the streak of the call as the highest streak
update_leaderboard_latest_streak(result, points_change, correct_answer, current_streak) ==
    [found |-> TRUE,
     points |-> IF (IF result.found THEN result.points ELSE 0) + points_change < 0
                THEN 0
                ELSE (IF result.found THEN result.points ELSE 0) + points_change,
     highest_streak |-> current_streak,
     total_correct |-> (IF result.found THEN result.total_correct ELSE 0)
                           + (IF correct_answer THEN 1 ELSE 0)]

\* the bonus counted once per streak step instead of twice
points_earned_single(current_streak) == 10 + current_streak

\* the incorrect branch clearing the live streak counters of all users
StreaksCleared(streaks, user_id) == [x \in {} |-> 0]

\* the incorrect branch leaving the live streak counter in place
StreaksKept(streaks, user_id) == streaks

(***************************************************************************)
(* update_leaderboard, lines 377-379.                                      *)
(***************************************************************************)
update_leaderboard_values(result, points_change, correct_answer, current_streak) ==
    Row(Max(0, (IF result.found THEN result.points ELSE 0) + points_change),
        Max(IF result.found THEN result.highest_streak ELSE 0, current_streak),
        (IF result.found THEN result.total_correct ELSE 0)
            + (IF correct_answer THEN 1 ELSE 0))

\* line 1503
points_earned(current_streak) == 10 + (current_streak * 2)

\* line 1532
points_lost == 5

\* line 1531: if user_id in bot.question_streaks: del bot.question_streaks[user_id]
StreaksAfterIncorrect(streaks, user_id) == DictDel(streaks, user_id)

\* line 1502
StreaksAfterCorrect(streaks, user_id, current_streak) ==
    DictSet(streaks, user_id, current_streak)

(***************************************************************************)
(* on_message up to its branch, lines 1439-1488 and 1558.                  *)
(***************************************************************************)
\* ctx.valid: the prefix followed by the name of a registered command
InvokedName(content) ==
    LET rest == SubSeq(content, Len(CommandPrefix) + 1, Len(content))
        ends == {i \in 1..Len(rest) : rest[i] \in Whitespace}
        stop == IF ends = {} THEN Len(rest) + 1
                ELSE CHOOSE i \in ends : \A j \in ends : i <= j
    IN Lower(SubSeq(rest, 1, stop - 1))

IsValidCommand(content) ==
    StartsWith(content, CommandPrefix) /\ InvokedName(content) \in CommandNames

\* line 1439 without the lowercasing
ContentStripped(content) == Strip(content)

\* line 1439
ContentLower(content) == Strip(Lower(content))

\* line 1444
IsMathHelpTrigger(content) ==
    LET content_lower == ContentLower(content)
    IN content_lower # <<>> /\ \E trigger \in math_help_triggers : Contains(content_lower, trigger)

InMathHelp(states, user_id) ==
    user_id \in DOMAIN states /\ states[user_id].mode = "math_help"

\* what on_message derives from the text of each message
ContentFacts ==
    [content \in Contents |->
        [valid     |-> IsValidCommand(Chars[content]),
         mathquest |-> IsValidCommand(Chars[content])
                          /\ InvokedName(Chars[content]) = MathquestName,
         trigger   |-> IsMathHelpTrigger(Chars[content]),
         cancel    |-> ContentLower(Chars[content]) \in CancelWords]]

\* is_answer_correct(message.content, expected_answer) for each message and
\* each posed question
Verdicts ==
    [content \in Contents |->
        [question \in Questions |->
            is_answer_correct(Chars[content], Chars[math_questions[question]])]]

\* on_message with the quiz block placed before the help-mode block
RouteQuizFirst(answers, states, user_id, content) ==
    IF ~ContentFacts[content].valid /\ user_id \notin DOMAIN answers
           /\ ContentFacts[content].trigger
    THEN IF InMathHelp(states, user_id) THEN "already_in_mode" ELSE "enter_help"
    ELSE IF user_id \in DOMAIN answers THEN "grade"
    ELSE IF InMathHelp(states, user_id)
    THEN IF ContentFacts[content].cancel THEN "exit_help" ELSE "solver"
    ELSE "commands"

\* on_message testing the trigger phrases without looking at math_answers
RouteTriggerFirst(answers, states, user_id, content) ==
    IF ~ContentFacts[content].valid /\ ContentFacts[content].trigger
    THEN IF InMathHelp(states, user_id) THEN "already_in_mode" ELSE "enter_help"
    ELSE IF InMathHelp(states, user_id)
    THEN IF ContentFacts[content].cancel THEN "exit_help" ELSE "solver"
    ELSE IF user_id \in DOMAIN answers /\ user_id \notin DOMAIN states THEN "grade"
    ELSE "commands"

\* on_message taking every text of a user without a session for a trigger
RouteAnyTextTriggers(answers, states, user_id, content) ==
    IF ~ContentFacts[content].valid /\ user_id \notin DOMAIN answers
    THEN IF InMathHelp(states, user_id) THEN "already_in_mode" ELSE "enter_help"
    ELSE IF InMathHelp(states, user_id)
    THEN IF ContentFacts[content].cancel THEN "exit_help" ELSE "solver"
    ELSE IF user_id \in DOMAIN answers /\ user_id \notin DOMAIN states THEN "grade"
    ELSE "commands"

\* on_message handing every valid command to command dispatch first
RouteCommandsFirst(answers, states, user_id, content) ==
    IF ContentFacts[content].valid THEN "commands"
    ELSE IF user_id \notin DOMAIN answers /\ ContentFacts[content].trigger
    THEN IF InMathHelp(states, user_id) THEN "already_in_mode" ELSE "enter_help"
    ELSE IF InMathHelp(states, user_id)
    THEN IF ContentFacts[content].cancel THEN "exit_help" ELSE "solver"
    ELSE IF user_id \in DOMAIN answers /\ user_id \notin DOMAIN states THEN "grade"
    ELSE "commands"

\* the branch on_message takes for a message, lines 1448-1558
Route(answers, states, user_id, content) ==
    IF ~ContentFacts[content].valid /\ user_id \notin DOMAIN answers
           /\ ContentFacts[content].trigger
    THEN IF InMathHelp(states, user_id) THEN "already_in_mode" ELSE "enter_help"
    ELSE IF InMathHelp(states, user_id)
    THEN IF ContentFacts[content].cancel THEN "exit_help" ELSE "solver"
    ELSE IF user_id \in DOMAIN answers /\ user_id \notin DOMAIN states THEN "grade"
    ELSE "commands"

(***************************************************************************)
(* Initial state: empty in-memory dicts and a fresh database.              *)
(***************************************************************************)
\* the row of log_question with the flag always set
HistoryRowAlwaysCorrect(user_id, question, answer, was_correct) ==
    [user_id |-> user_id, question |-> question, answer |-> answer,
     was_correct |-> TRUE]

HistoryRow(user_id, question, answer, was_correct) ==
    [user_id |-> user_id, question |-> question, answer |-> answer,
     was_correct |-> was_correct]

\* no call of is_answer_correct is being followed
NoEvaluation ==
    [pc |-> "none", user_answer |-> <<>>, correct_answer_str |-> <<>>,
     algebraic_possible_answers |-> {}, result |-> FALSE]

Init ==
    /\ math_answers = EmptyDict
    /\ question_streaks = EmptyDict
    /\ conversation_states = EmptyDict
    /\ leaderboard = EmptyDict
    /\ question_history = <<>>
    /\ tasks = <<>>
    /\ graded_count = 0
    /\ failures = 0
    /\ senders = {"u1"}
    /\ evaluation = NoEvaluation

\* a message is delivered and on_message takes the given branch
Delivered(user_id, content, branch) ==
    /\ user_id \in senders
    /\ Route(math_answers, conversation_states, user_id, content) = branch

(***************************************************************************)
(* on_message: the help-mode branches, lines 1448-1485.                    *)
(***************************************************************************)
\* lines 1450-1452: a trigger phrase from a user already in help mode
OnMessageAlreadyInMode(user_id, content) ==
    /\ Delivered(user_id, content, "already_in_mode")
    /\ UNCHANGED <<graded_count, math_answers, question_streaks, conversation_states, leaderboard,
                   question_history, tasks, failures, senders, evaluation>>

\* lines 1455-1465
OnMessageEnterHelp(user_id, content) ==
    /\ Delivered(user_id, content, "enter_help")
    /\ conversation_states' = DictSet(conversation_states, user_id, [mode |-> "math_help"])
    /\ UNCHANGED <<graded_count, math_answers, question_streaks, leaderboard,
                   question_history, tasks, failures, senders, evaluation>>

\* lines 1470-1479
OnMessageExitHelp(user_id, content) ==
    /\ Delivered(user_id, content, "exit_help")
    /\ conversation_states' = DictDel(conversation_states, user_id)
    /\ UNCHANGED <<graded_count, math_answers, question_streaks, leaderboard,
                   question_history, tasks, failures, senders, evaluation>>

\* lines 1482-1485: the message goes to solve_math_question_from_help
OnMessageSolver(user_id, content) ==
    /\ Delivered(user_id, content, "solver")
    /\ UNCHANGED <<graded_count, math_answers, question_streaks, conversation_states, leaderboard,
                   question_history, tasks, failures, senders, evaluation>>

(***************************************************************************)
(* on_message: the quiz branch up to its first await, lines 1488-1509 and  *)
(* 1530-1537.                                                              *)
(***************************************************************************)
GradingTask(user_id, content, question_data, current_streak, is_correct, points_change) ==
    [pc |-> "update_read", user_id |-> user_id, content |-> content,
     question_data |-> question_data,
     current_streak |-> current_streak, is_correct |-> is_correct,
     points_change |-> points_change, result |-> NoRow]

OnMessageCorrect(user_id, content) ==
    /\ Delivered(user_id, content, "grade")
    /\ graded_count < MaxGraded
    /\ graded_count' = graded_count + 1
    /\ LET question_data  == math_answers[user_id]
           current_streak == question_data.streak + 1
       IN /\ Verdicts[content][question_data.question]
          /\ question_streaks' = StreaksAfterCorrect(question_streaks, user_id, current_streak)
          /\ tasks' = Append(tasks,
                 GradingTask(user_id, content, question_data, current_streak, TRUE,
                             points_earned(current_streak)))
    /\ UNCHANGED <<math_answers, conversation_states, leaderboard, question_history,
                   failures, senders, evaluation>>

OnMessageIncorrect(user_id, content) ==
    /\ Delivered(user_id, content, "grade")
    /\ graded_count < MaxGraded
    /\ graded_count' = graded_count + 1
    /\ LET question_data == math_answers[user_id]
       IN /\ ~Verdicts[content][question_data.question]
          /\ question_streaks' = StreaksAfterIncorrect(question_streaks, user_id)
          /\ tasks' = Append(tasks,
                 GradingTask(user_id, content, question_data, 0, FALSE, 0 - points_lost))
    /\ UNCHANGED <<math_answers, conversation_states, leaderboard, question_history,
                   failures, senders, evaluation>>

(***************************************************************************)
(* on_message: line 1558, bot.process_commands.                            *)
(***************************************************************************)
\* the mathquest command without the test of lines 540-547
mathquest_unguarded(answers, streaks, states, user_id, question) ==
    DictSet(answers, user_id,
        [answer |-> math_questions[question], question |-> question,
         streak |-> IF user_id \in DOMAIN streaks THEN streaks[user_id] ELSE 0])

\* the mathquest command, lines 537-560: refused for a user in help mode,
\* else the drawn question is posed with the live streak
mathquest(answers, streaks, states, user_id, question) ==
    IF user_id \in DOMAIN states THEN answers
    ELSE DictSet(answers, user_id,
             [answer |-> math_questions[question], question |-> question,
              streak |-> IF user_id \in DOMAIN streaks THEN streaks[user_id] ELSE 0])

\* the quest start also creating the leaderboard row of the user
OnMessageMathquestCreatesRow(user_id, content) ==
    /\ Delivered(user_id, content, "commands")
    /\ ContentFacts[content].mathquest
    /\ \E question \in Questions :
          math_answers' = mathquest(math_answers, question_streaks,
                                    conversation_states, user_id, question)
    /\ leaderboard' = DictSet(leaderboard, user_id, Row(0, 0, 0))
    /\ UNCHANGED <<graded_count, tasks, question_streaks, conversation_states,
                   question_history, failures, senders, evaluation>>

\* the message invokes mathquest; nothing between line 1558 and line 560
\* waits for anything, so the command runs in the same stretch
OnMessageMathquest(user_id, content) ==
    /\ Delivered(user_id, content, "commands")
    /\ ContentFacts[content].mathquest
    /\ \E question \in Questions :
          math_answers' = mathquest(math_answers, question_streaks,
                                    conversation_states, user_id, question)
    /\ UNCHANGED <<graded_count, tasks, question_streaks, conversation_states,
                   leaderboard, question_history, failures, senders, evaluation>>

\* line 534: the per-user cooldown rejects the invocation
OnMessageMathquestCooldown(user_id, content) ==
    /\ Delivered(user_id, content, "commands")
    /\ ContentFacts[content].mathquest
    /\ UNCHANGED vars

\* the message is no command, or a command that touches no quiz state
OnMessageUnhandled(user_id, content) ==
    /\ Delivered(user_id, content, "commands")
    /\ ~ContentFacts[content].mathquest
    /\ UNCHANGED <<graded_count, math_answers, question_streaks, conversation_states, leaderboard,
                   question_history, tasks, failures, senders, evaluation>>

(***************************************************************************)
(* update_leaderboard in its executor thread, lines 371-398: the SELECT    *)
(* and the upsert are two database operations, each with its own           *)
(* connection; other threads and the event loop run between them.          *)
(***************************************************************************)
StorageFailure ==
    /\ failures < MaxFailures
    /\ failures' = failures + 1

\* lines 372-373
UpdateRead(t) ==
    /\ At(t, "update_read")
    /\ tasks' = [tasks EXCEPT ![t].pc = "update_write",
                              ![t].result = SelectRow(leaderboard, tasks[t].user_id)]
    /\ UNCHANGED <<math_answers, question_streaks, conversation_states, leaderboard,
                   question_history, graded_count, failures, senders, evaluation>>

\* lines 374-375: the SELECT raises and the row is taken to be absent
UpdateReadFails(t) ==
    /\ At(t, "update_read")
    /\ StorageFailure
    /\ tasks' = [tasks EXCEPT ![t].pc = "update_write", ![t].result = NoRow]
    /\ UNCHANGED <<math_answers, question_streaks, conversation_states, leaderboard,
                   question_history, graded_count, senders, evaluation>>

\* update_leaderboard returns to the handler, and its row goes with it
UpdateReturns(t) == [tasks EXCEPT ![t].pc = "log_question", ![t].result = NoRow]

\* lines 377-395
UpdateWrite(t) ==
    /\ At(t, "update_write")
    /\ leaderboard' = DictSet(leaderboard, tasks[t].user_id,
           update_leaderboard_values(tasks[t].result, tasks[t].points_change,
                                     tasks[t].is_correct, tasks[t].current_streak))
    /\ tasks' = UpdateReturns(t)
    /\ UNCHANGED <<math_answers, question_streaks, conversation_states,
                   question_history, graded_count, failures, senders, evaluation>>

\* the upsert raising through update_leaderboard and ending the handler
UpdateWriteRaises(t) ==
    /\ At(t, "update_write")
    /\ StorageFailure
    /\ tasks' = TaskEnds(t)
    /\ UNCHANGED <<math_answers, question_streaks, conversation_states, leaderboard,
                   question_history, graded_count, senders, evaluation>>

\* lines 396-398: the upsert raises, is rolled back and the error is logged
UpdateWriteFails(t) ==
    /\ At(t, "update_write")
    /\ StorageFailure
    /\ tasks' = UpdateReturns(t)
    /\ UNCHANGED <<math_answers, question_streaks, conversation_states, leaderboard,
                   question_history, graded_count, senders, evaluation>>

(***************************************************************************)
(* log_question in its executor thread, lines 401-410.                     *)
(***************************************************************************)
LogQuestion(t) ==
    /\ At(t, "log_question")
    /\ question_history' = Append(question_history,
           HistoryRow(tasks[t].user_id, tasks[t].question_data.question, tasks[t].content,
                      tasks[t].is_correct))
    /\ tasks' = [tasks EXCEPT ![t].pc = "finish"]
    /\ UNCHANGED <<math_answers, question_streaks, conversation_states, leaderboard,
                   graded_count, failures, senders, evaluation>>

\* lines 409-410
LogQuestionFails(t) ==
    /\ At(t, "log_question")
    /\ StorageFailure
    /\ tasks' = [tasks EXCEPT ![t].pc = "finish"]
    /\ UNCHANGED <<math_answers, question_streaks, conversation_states, leaderboard,
                   question_history, graded_count, senders, evaluation>>

(***************************************************************************)
(* on_message after the two awaited storage calls.                         *)
(***************************************************************************)
\* the first draw of line 1513 taken as it comes
FirstDraw(bank, question_text) == bank

\* lines 1513-1515: the questions with which the redraw loop can end; it
\* goes on drawing from the bank while the draw is the question just answered
NextQuestions(bank, question_text) == bank \ {question_text}

\* lines 1513-1519: the redraw loop ends with a question other than the
\* one just answered
FinishCorrect(t) ==
    /\ At(t, "finish") /\ tasks[t].is_correct
    /\ \E new_question \in NextQuestions(Questions, tasks[t].question_data.question) :
          /\ math_answers' = DictSet(math_answers, tasks[t].user_id,
                 [answer |-> math_questions[new_question], question |-> new_question,
                  streak |-> tasks[t].current_streak])
    /\ tasks' = TaskEnds(t)
    /\ UNCHANGED <<question_streaks, conversation_states, leaderboard, question_history,
                   graded_count, failures, senders, evaluation>>

\* line 1541: del bot.math_answers[user_id]
FinishIncorrect(t) ==
    /\ At(t, "finish") /\ ~tasks[t].is_correct
    /\ tasks[t].user_id \in DOMAIN math_answers
    /\ math_answers' = DictDel(math_answers, tasks[t].user_id)
    /\ tasks' = TaskEnds(t)
    /\ UNCHANGED <<question_streaks, conversation_states, leaderboard, question_history,
                   graded_count, failures, senders, evaluation>>

\* line 1541 when the entry is gone: KeyError ends the handler
FinishIncorrectKeyError(t) ==
    /\ At(t, "finish") /\ ~tasks[t].is_correct
    /\ tasks[t].user_id \notin DOMAIN math_answers
    /\ tasks' = TaskEnds(t)
    /\ UNCHANGED <<math_answers, question_streaks, conversation_states, leaderboard,
                   question_history, graded_count, failures, senders, evaluation>>

Next ==
    \/ \E user_id \in Users, content \in Contents :
          \/ OnMessageAlreadyInMode(user_id, content)
          \/ OnMessageEnterHelp(user_id, content)
          \/ OnMessageExitHelp(user_id, content)
          \/ OnMessageSolver(user_id, content)
          \/ OnMessageCorrect(user_id, content)
          \/ OnMessageIncorrect(user_id, content)
          \/ OnMessageMathquest(user_id, content)
          \/ OnMessageMathquestCooldown(user_id, content)
          \/ OnMessageUnhandled(user_id, content)
    \/ \E t \in TaskIds :
          \/ UpdateRead(t)
          \/ UpdateReadFails(t)
          \/ UpdateWrite(t)
          \/ UpdateWriteFails(t)
          \/ LogQuestion(t)
          \/ LogQuestionFails(t)
          \/ FinishCorrect(t)
          \/ FinishIncorrect(t)
          \/ FinishIncorrectKeyError(t)

Spec == Init /\ [][Next]_vars

(***************************************************************************)
(* Two users, each waiting for the reply to an answer before sending the   *)
(* next message to be graded, on a database that does not fail: the        *)
(* handlers of different users interleave at their awaits.                 *)
(***************************************************************************)
InitUsers ==
    /\ math_answers = EmptyDict
    /\ question_streaks = EmptyDict
    /\ conversation_states = EmptyDict
    /\ leaderboard = EmptyDict
    /\ question_history = <<>>
    /\ tasks = <<>>
    /\ graded_count = 0
    /\ failures = 0
    /\ senders = Users
    /\ evaluation = NoEvaluation

\* no handler of the user is suspended at an await
Quiescent(user_id) == \A t \in DOMAIN tasks : tasks[t].user_id # user_id

\* lines 1500-1510, the user having no answer in grading
AnswerCorrect(user_id, content) ==
    /\ Quiescent(user_id)
    /\ OnMessageCorrect(user_id, content)

\* lines 1530-1538, the user having no answer in grading
AnswerIncorrect(user_id, content) ==
    /\ Quiescent(user_id)
    /\ OnMessageIncorrect(user_id, content)

NextUsers ==
    \/ \E user_id \in Users, content \in Contents :
          \/ OnMessageAlreadyInMode(user_id, content)
          \/ OnMessageEnterHelp(user_id, content)
          \/ OnMessageExitHelp(user_id, content)
          \/ OnMessageSolver(user_id, content)
          \/ AnswerCorrect(user_id, content)
          \/ AnswerIncorrect(user_id, content)
          \/ OnMessageMathquest(user_id, content)
          \/ OnMessageMathquestCooldown(user_id, content)
          \/ OnMessageUnhandled(user_id, content)
    \/ \E t \in TaskIds :
          \/ UpdateRead(t)
          \/ UpdateWrite(t)
          \/ LogQuestion(t)
          \/ FinishCorrect(t)
          \/ FinishIncorrect(t)

SpecUsers == InitUsers /\ [][NextUsers]_vars

(***************************************************************************)
(* is_answer_correct step by step, lines 414-516.  A call is followed from *)
(* its arguments to its return value; the loop of lines 463-510 takes the  *)
(* algebraic forms in the order the set yields them, which is any order.   *)
(* The function assigns to nothing but its locals.                         *)
(***************************************************************************)
\* the bot while u1 is in a quest, having answered one question correctly
QuizInProgress ==
    /\ math_answers = DictSet(EmptyDict, "u1",
           [answer |-> "5",
            question |-> "Length of the hypotenuse for a right triangle with legs 3 and 4",
            streak |-> 1])
    /\ question_streaks = DictSet(EmptyDict, "u1", 1)
    /\ conversation_states = EmptyDict
    /\ leaderboard = DictSet(EmptyDict, "u1", Row(12, 1, 1))
    /\ question_history = <<HistoryRow("u1", "Solve for x: 3x + 5 = 20", "5.0", TRUE)>>
    /\ tasks = <<>>
    /\ graded_count = 1
    /\ failures = 0
    /\ senders = {"u1"}

BotUnchanged ==
    UNCHANGED <<math_answers, question_streaks, conversation_states, leaderboard,
                question_history, tasks, graded_count, failures, senders>>

\* the call is_answer_correct(user_answer, correct_answer_str)
InitEval ==
    /\ QuizInProgress
    /\ \E user_answer \in EvalCandidates, correct_answer_str \in EvalAccepted :
          evaluation = [pc |-> "normalize", user_answer |-> Text[user_answer],
                        correct_answer_str |-> Text[correct_answer_str],
                        algebraic_possible_answers |-> {}, result |-> FALSE]

user_ans_norm == Normalize(evaluation.user_answer)

possible_answers == PossibleAnswers(evaluation.correct_answer_str)

Return(result) == [evaluation EXCEPT !.pc = "returned", !.result = result,
                                    !.algebraic_possible_answers = {}]

\* lines 419-421: an empty answer is never correct
EvalEmpty ==
    /\ evaluation.pc = "normalize"
    /\ user_ans_norm = <<>>
    /\ evaluation' = Return(FALSE)
    /\ BotUnchanged

\* lines 419-425
EvalNormalize ==
    /\ evaluation.pc = "normalize"
    /\ user_ans_norm # <<>>
    /\ evaluation' = [evaluation EXCEPT !.pc = "literal"]
    /\ BotUnchanged

\* lines 426-427
EvalLiteralMatch ==
    /\ evaluation.pc = "literal"
    /\ user_ans_norm \in possible_answers
    /\ evaluation' = Return(TRUE)
    /\ BotUnchanged

EvalLiteralMiss ==
    /\ evaluation.pc = "literal"
    /\ user_ans_norm \notin possible_answers
    /\ evaluation' = [evaluation EXCEPT !.pc = "numeric"]
    /\ BotUnchanged

\* lines 430-444: float() raises nothing but ValueError, caught per form
EvalNumericMatch ==
    /\ evaluation.pc = "numeric"
    /\ NumericMatch(user_ans_norm, possible_answers)
    /\ evaluation' = Return(TRUE)
    /\ BotUnchanged

EvalNumericMiss ==
    /\ evaluation.pc = "numeric"
    /\ ~NumericMatch(user_ans_norm, possible_answers)
    /\ evaluation' = [evaluation EXCEPT !.pc = "heuristic"]
    /\ BotUnchanged

\* lines 450-462: both sides look algebraic
EvalSymbolicEnter ==
    /\ evaluation.pc = "heuristic"
    /\ LooksAlgebraic(user_ans_norm)
    /\ \E possible \in possible_answers : LooksAlgebraic(possible)
    /\ evaluation' = [evaluation EXCEPT !.pc = "pairs",
           !.algebraic_possible_answers = {p \in possible_answers : LooksAlgebraic(p)}]
    /\ BotUnchanged

\* line 462 false, line 516
EvalSymbolicSkip ==
    /\ evaluation.pc = "heuristic"
    /\ ~(/\ LooksAlgebraic(user_ans_norm)
         /\ \E possible \in possible_answers : LooksAlgebraic(possible))
    /\ evaluation' = Return(FALSE)
    /\ BotUnchanged

\* lines 475, 485, 500, 503: return True
EvalPairMatch ==
    /\ evaluation.pc = "pairs"
    /\ \E possible \in evaluation.algebraic_possible_answers :
          SymbolicPairMatch(user_ans_norm, possible)
    /\ evaluation' = Return(TRUE)
    /\ BotUnchanged

\* lines 489 and 507-510: the pair does not match, or fails with SympifyError,
\* SyntaxError, TypeError or NotImplementedError; the loop goes on
EvalPairContinue ==
    /\ evaluation.pc = "pairs"
    /\ \E possible \in evaluation.algebraic_possible_answers :
          /\ ~SymbolicPairMatch(user_ans_norm, possible)
          /\ ~SymbolicPairRaises(user_ans_norm, possible)
          /\ evaluation' = [evaluation EXCEPT !.algebraic_possible_answers = @ \ {possible}]
    /\ BotUnchanged

\* lines 511-513 and 516: any other exception leaves the loop
EvalPairUnexpected ==
    /\ evaluation.pc = "pairs"
    /\ \E possible \in evaluation.algebraic_possible_answers :
          SymbolicPairRaises(user_ans_norm, possible)
    /\ evaluation' = Return(FALSE)
    /\ BotUnchanged

\* the loop of line 463 is through; line 516
EvalPairsExhausted ==
    /\ evaluation.pc = "pairs"
    /\ evaluation.algebraic_possible_answers = {}
    /\ evaluation' = Return(FALSE)
    /\ BotUnchanged

NextEval ==
    \/ EvalEmpty
    \/ EvalNormalize
    \/ EvalLiteralMatch
    \/ EvalLiteralMiss
    \/ EvalNumericMatch
    \/ EvalNumericMiss
    \/ EvalSymbolicEnter
    \/ EvalSymbolicSkip
    \/ EvalPairMatch
    \/ EvalPairContinue
    \/ EvalPairUnexpected
    \/ EvalPairsExhausted

SpecEval == InitEval /\ [][NextEval]_vars

(***************************************************************************)
(* Properties.                                                             *)
(***************************************************************************)
\* the newest handler in flight after a step that graded an answer
Graded == Len(tasks') = Len(tasks) + 1

NewTask == tasks'[Len(tasks')]

\* the handler t completes in this step
Finishes(t) == At(t, "finish") /\ tasks' = TaskEnds(t)

\* the quiz session of a user as a set with at most one element
SessionOf(answers, user_id) == {answers[u] : u \in (DOMAIN answers) \cap {user_id}}

\* the attempts of a user logged as correct
CorrectAttempts(user_id) ==
    {i \in DOMAIN question_history :
        question_history[i].user_id = user_id /\ question_history[i].was_correct}

\* C1: no lost update.  The stored row is the result of applying the delta
\* of every call, one after the other; so once every handler has completed
\* and no database operation has failed, the stored total_correct of a user
\* counts every answer of theirs that was graded correct.
C1_NoLostUpdate ==
    (tasks = <<>> /\ failures = 0) =>
        \A user_id \in Users :
            CorrectAttempts(user_id) # {} =>
                /\ user_id \in DOMAIN leaderboard
                /\ leaderboard[user_id].total_correct
                      = Cardinality(CorrectAttempts(user_id))

\* C2: same-user serialization.  A message of a user is not graded while an
\* earlier handler of the same user has not yet completed its transition.
C2_SameUserSerialized ==
    \A i, j \in DOMAIN tasks : i # j => tasks[i].user_id # tasks[j].user_id

\* C3: correct-answer transition.  A message judged correct against a
\* session posed at streak s sets the live streak counter to s + 1 and calls
\* the score update with (10 + 2 * (s + 1), TRUE, s + 1); when its handler
\* completes, the session is replaced by one with a different question and
\* the stored streak s + 1.
C3_CorrectTransition ==
    [][/\ (Graded /\ NewTask.is_correct) =>
             LET user_id == NewTask.user_id
                 s       == math_answers[user_id].streak
             IN /\ user_id \in DOMAIN question_streaks'
                /\ question_streaks'[user_id] = s + 1
                /\ NewTask.points_change = 10 + 2 * (s + 1)
                /\ NewTask.current_streak = s + 1
       /\ \A t \in DOMAIN tasks :
             (Finishes(t) /\ tasks[t].is_correct) =>
                LET user_id == tasks[t].user_id
                IN /\ user_id \in DOMAIN math_answers'
                   /\ math_answers'[user_id].streak = tasks[t].question_data.streak + 1
                   /\ math_answers'[user_id].question # tasks[t].question_data.question
                   /\ math_answers'[user_id].answer
                         = math_questions[math_answers'[user_id].question]]_vars

\* a second correct answer in a row has earned 14 points and its handler has
\* posed the next question at streak 2
C3_Witness ==
    /\ "u1" \in DOMAIN math_answers /\ math_answers["u1"].streak = 2
    /\ "u1" \in DOMAIN leaderboard /\ leaderboard["u1"].points = 12 + 14
    /\ "u1" \in DOMAIN question_streaks /\ question_streaks["u1"] = 2
    /\ tasks = <<>>

C5_PointsFloor ==
    /\ [](\A user_id \in DOMAIN leaderboard : leaderboard[user_id].points >= 0)
    /\ [][\A t \in DOMAIN tasks :
             (/\ At(t, "update_write")
              /\ tasks' = UpdateReturns(t)
              /\ failures' = failures
              /\ tasks[t].points_change < 0
              /\ (~tasks[t].result.found \/ tasks[t].result.points < 5))
             => leaderboard'[tasks[t].user_id].points = 0]_vars

\* two penalties in a row, applied one after the other: the second found a
\* row with 0 points
C5_Witness ==
    /\ tasks = <<>> /\ failures = 0
    /\ Len(question_history) = 2
    /\ \A i \in DOMAIN question_history : ~question_history[i].was_correct
    /\ "u1" \in DOMAIN leaderboard /\ leaderboard["u1"] = Row(0, 0, 0)
    /\ "u1" \notin DOMAIN math_answers

\* C6: the stored highest_streak of a user never decreases, also when
\* updates overlap or database operations fail.
C6_HighestStreakMonotone ==
    [][\A user_id \in DOMAIN leaderboard :
          /\ user_id \in DOMAIN leaderboard'
          /\ leaderboard'[user_id].highest_streak
                >= leaderboard[user_id].highest_streak]_vars

\* C7: the stored total_correct of a user never decreases.
C7_TotalCorrectMonotone ==
    [][\A user_id \in DOMAIN leaderboard :
          /\ user_id \in DOMAIN leaderboard'
          /\ leaderboard'[user_id].total_correct
                >= leaderboard[user_id].total_correct]_vars

\* the messages that are no command of the bot
Texts == {content \in Contents : ~ContentFacts[content].valid}

\* the part of the quiz state that belongs to a user
QuizStateOf(user_id) ==
    <<SessionOf(math_answers, user_id), SessionOf(question_streaks, user_id),
      SessionOf(leaderboard, user_id),
      SelectSeq(question_history, LAMBDA row : row.user_id = user_id)>>

\* C8: help-mode isolation.  No message of a user in help mode is graded,
\* whether or not the user has a session, and handling such a message leaves
\* the user's session, streak counter and stored score as they are.
C8_HelpModeIsolation ==
    /\ [](\A user_id \in Users, content \in Contents :
             InMathHelp(conversation_states, user_id) =>
                Route(math_answers, conversation_states, user_id, content)
                    \in {"already_in_mode", "exit_help", "solver"})
    /\ [][\A user_id \in Users :
             InMathHelp(conversation_states, user_id) =>
                /\ ~(Graded /\ NewTask.user_id = user_id)
                /\ tasks' = tasks => QuizStateOf(user_id)' = QuizStateOf(user_id)]_vars

\* a user in help mode holds a session, and one of the messages they can
\* send is the accepted answer to its question
C8_Witness ==
    /\ InMathHelp(conversation_states, "u1")
    /\ "u1" \in DOMAIN math_answers
    /\ \E content \in Contents :
          /\ Verdicts[content][math_answers["u1"].question]
          /\ Route(math_answers, conversation_states, "u1", content) = "solver"

C10_HelpTextsReachSolver ==
    \A user_id \in senders, content \in Texts :
        (InMathHelp(conversation_states, user_id) /\ ~ContentFacts[content].cancel)
        => Route(math_answers, conversation_states, user_id, content) = "solver"

\* C11: start-quiz guard.  Run for a user in help mode, the mathquest command
\* creates or replaces no session whatever question it would draw, and a
\* message invoking it is taken by the help-mode block: the mode stays, and
\* session, streak counter and stored rows are as before.
C11_StartQuizGuard ==
    /\ [](\A user_id \in Users, question \in Questions :
             InMathHelp(conversation_states, user_id) =>
                mathquest(math_answers, question_streaks, conversation_states,
                          user_id, question) = math_answers)
    /\ [](\A user_id \in Users, content \in Contents :
             (InMathHelp(conversation_states, user_id)
                 /\ ContentFacts[content].mathquest) =>
                Route(math_answers, conversation_states, user_id, content) = "solver")
    /\ [][\A user_id \in Users :
             (InMathHelp(conversation_states, user_id) /\ tasks' = tasks) =>
                QuizStateOf(user_id)' = QuizStateOf(user_id)]_vars

\* a user in help mode holds a session posed at streak 1, and the mathquest
\* message is among those they send
C11_Witness ==
    /\ InMathHelp(conversation_states, "u1")
    /\ "u1" \in DOMAIN math_answers /\ math_answers["u1"].streak = 1
    /\ \E content \in Contents :
          /\ ContentFacts[content].mathquest
          /\ Route(math_answers, conversation_states, "u1", content) = "solver"

\* texts that are a cancel word up to case and surrounding whitespace
CancelUtterances ==
    { <<"c","a","n","c","e","l">>, <<" ","S","t","o","p"," ">>,
      <<"D","O","N","E">>, <<"e","x","i","t","\n">>, <<"\t","E","x","i","T">> }

\* texts that only contain a cancel word
NotCancelUtterances ==
    { <<"c","a","n","c","e","l"," ","i","t">>, <<"s","t","o","p","!">>,
      <<"d","o","n","e","?">>, <<"q","u","i","t">> }

\* the cancel words are recognised in any case and with spaces around
\* them, and nothing else is
CancelWordsRecognised ==
    /\ \A text \in CancelUtterances : ContentLower(text) \in CancelWords
    /\ \A text \in NotCancelUtterances : ContentLower(text) \notin CancelWords

\* C12: help-mode exit.  A cancel word (cancel, stop, done, exit, after
\* lowercasing and trimming) from a user in help mode is not forwarded to the
\* solver and removes the help-mode state, changing nothing else; no message
\* of a user who is not in help mode goes to the solver.
C12_HelpModeExit ==
    /\ [](CancelWordsRecognised)
    /\ [](\A user_id \in Users, content \in Contents :
             /\ (InMathHelp(conversation_states, user_id) /\ ContentFacts[content].cancel)
                   => Route(math_answers, conversation_states, user_id, content)
                         = "exit_help"
             /\ ~InMathHelp(conversation_states, user_id)
                   => Route(math_answers, conversation_states, user_id, content)
                         # "solver")
    /\ [][\A user_id \in Users :
             (InMathHelp(conversation_states, user_id)
                 /\ conversation_states' # conversation_states) =>
                /\ conversation_states' = DictDel(conversation_states, user_id)
                /\ UNCHANGED <<math_answers, question_streaks, leaderboard,
                               question_history, tasks>>]_vars

\* a user in help mode without a session: the cancel word ends the mode, any
\* other text goes to the solver
C12_Witness ==
    /\ InMathHelp(conversation_states, "u1")
    /\ "u1" \notin DOMAIN math_answers
    /\ \E content \in Contents :
          /\ ContentFacts[content].cancel
          /\ Route(math_answers, conversation_states, "u1", content) = "exit_help"
    /\ \E content \in Contents :
          Route(math_answers, conversation_states, "u1", content) = "solver"

\* the await that follows each await of the quiz branch
Following(pc) ==
    CASE pc = "update_read"  -> "update_write"
      [] pc = "update_write" -> "log_question"
      [] pc = "log_question" -> "finish"

\* the handler t can complete its transition
CanFinish(t) ==
    ENABLED (FinishCorrect(t) \/ FinishIncorrect(t) \/ FinishIncorrectKeyError(t))

\* C13: a storage failure never blocks the state machine.  The step in which
\* a database operation of a handler fails leaves that handler in flight at
\* its next await, with the answer it graded, and touches no session; every
\* handler that is past its storage calls can complete, and completing
\* replaces the session after a correct answer and leaves none after an
\* incorrect one.
C13_StorageFailureNeverBlocks ==
    /\ [][failures' # failures =>
             /\ math_answers' = math_answers
             /\ \E t \in DOMAIN tasks :
                   /\ DOMAIN tasks' = DOMAIN tasks
                   /\ \A i \in DOMAIN tasks : i # t => tasks'[i] = tasks[i]
                   /\ tasks'[t].pc = Following(tasks[t].pc)
                   /\ tasks'[t].is_correct = tasks[t].is_correct
                   /\ tasks'[t].question_data = tasks[t].question_data
                   /\ tasks'[t].current_streak = tasks[t].current_streak]_vars
    /\ [](\A t \in DOMAIN tasks : At(t, "finish") => CanFinish(t))
    /\ [][\A t \in DOMAIN tasks :
             Finishes(t) =>
                LET user_id == tasks[t].user_id
                IN IF tasks[t].is_correct
                   THEN /\ user_id \in DOMAIN math_answers'
                        /\ math_answers'[user_id].question
                              # tasks[t].question_data.question
                   ELSE user_id \notin DOMAIN math_answers']_vars

\* the attempt-log write of an incorrect answer has failed, and the handler
\* has completed and removed the session all the same
C13_Witness ==
    /\ failures = 1 /\ graded_count = 1 /\ tasks = <<>>
    /\ question_history = <<>>
    /\ "u1" \in DOMAIN leaderboard
    /\ "u1" \notin DOMAIN math_answers

\* what the handler shows the user when it completes: the embeds of lines
\* 1521-1525 and 1543-1548
Reply(task) ==
    IF task.is_correct
    THEN [title |-> "Correct", streak |-> task.current_streak,
          points |-> task.points_change, correct_answer |-> ""]
    ELSE [title |-> "Incorrect", streak |-> 0,
          points |-> points_lost, correct_answer |-> task.question_data.answer]

\* C14: the degraded outcome is reported.  A database operation that fails
\* while an answer is handled changes what its handler goes on to show the
\* user, so that the reply tells a recorded score from one that was not.
C14_DegradedOutcomeReported ==
    [][failures' # failures =>
          \E t \in DOMAIN tasks :
              /\ t \in DOMAIN tasks'
              /\ tasks'[t] # tasks[t]
              /\ Reply(tasks'[t]) # Reply(tasks[t])]_vars

\* the handlers of a user whose storage calls have not both returned
StoragePending(in_flight, user_id) ==
    {i \in DOMAIN in_flight :
        in_flight[i].user_id = user_id /\ in_flight[i].pc # "finish"}

\* C15: per-user ordering.  When a new question becomes the active session
\* of a user, no score update or attempt-log write for an answer of that
\* user is still outstanding; and a row is appended to the attempt log only
\* by a handler whose score update has returned.
C15_PerUserOrdering ==
    [][/\ \A user_id \in Users :
             (user_id \in DOMAIN math_answers'
                 /\ SessionOf(math_answers', user_id) # SessionOf(math_answers, user_id))
             => StoragePending(tasks', user_id) = {}
       /\ question_history' # question_history =>
             \E t \in DOMAIN tasks :
                 At(t, "log_question") /\ t \in DOMAIN tasks' /\ tasks'[t].pc = "finish"]_vars

\* C16: no immediate repeat.  The bank has at least two questions, and the
\* question a handler stores after a correct answer is never the question
\* that answer was graded against.
C16_NoImmediateRepeat ==
    /\ [](Cardinality(Questions) >= 2)
    /\ [][\A t \in DOMAIN tasks :
             (Finishes(t) /\ tasks[t].is_correct) =>
                /\ tasks[t].user_id \in DOMAIN math_answers'
                /\ math_answers'[tasks[t].user_id].question \in Questions
                /\ math_answers'[tasks[t].user_id].question
                      # tasks[t].question_data.question]_vars

\* one correct answer has been handled to the end: the question now posed is
\* not the one in the attempt log
C16_Witness ==
    /\ tasks = <<>> /\ graded_count = 1
    /\ Len(question_history) = 1 /\ question_history[1].was_correct
    /\ "u1" \in DOMAIN math_answers
    /\ math_answers["u1"].question # question_history[1].question

\* the banks the draw can be given: every non-empty part of the bank
Banks == (SUBSET Questions) \ {{}}

\* C17: the next-question draw always terminates.  For every handler of a
\* correct answer and every bank that holds the question it answered, the
\* draw ends with a question: with the repeated one when the bank has
\* nothing else.
C17_DrawTerminates ==
    \A t \in DOMAIN tasks :
        tasks[t].is_correct =>
            \A bank \in Banks :
                tasks[t].question_data.question \in bank =>
                    NextQuestions(bank, tasks[t].question_data.question) # {}

\* the user has no quiz session and is not in help mode
NotApplicable(answers, states, user_id) ==
    user_id \notin DOMAIN answers /\ ~InMathHelp(states, user_id)

\* C18: not applicable means no effect.  A message without a trigger phrase
\* from a user who has no session and is not in help mode is not graded and
\* goes to command processing; unless it starts a quest, handling it leaves
\* session map, mode map, streak counter, stored row and attempt log as
\* they are.
C18_NotApplicableNoEffect ==
    /\ [](\A user_id \in Users, content \in Contents :
             (NotApplicable(math_answers, conversation_states, user_id)
                 /\ ~ContentFacts[content].trigger) =>
                Route(math_answers, conversation_states, user_id, content) = "commands")
    /\ [][\A user_id \in Users :
             NotApplicable(math_answers, conversation_states, user_id) =>
                /\ ~(Graded /\ NewTask.user_id = user_id)
                /\ (tasks' = tasks
                       /\ NotApplicable(math_answers', conversation_states', user_id))
                   => QuizStateOf(user_id)' = QuizStateOf(user_id)]_vars

\* an incorrect answer has ended the quest; the accepted answer sent now is
\* handed to command processing
C18_Witness ==
    /\ tasks = <<>> /\ graded_count = 1
    /\ Len(question_history) = 1 /\ ~question_history[1].was_correct
    /\ NotApplicable(math_answers, conversation_states, "u1")
    /\ \E content \in Contents :
          /\ Verdicts[content][question_history[1].question]
          /\ Route(math_answers, conversation_states, "u1", content) = "commands"

\* C19: a quest started for a user without a session begins at streak 0,
\* overlapping handlers of that user included.
C19_QuestStartsAtZero ==
    [][\A user_id \in Users :
          (/\ user_id \notin DOMAIN math_answers
           /\ user_id \in DOMAIN math_answers'
           /\ tasks' = tasks)
          => math_answers'[user_id].streak = 0]_vars

\* the handlers whose attempt-log write has not been made
NotLogged == {t \in DOMAIN tasks : tasks[t].pc # "finish"}

\* C20: the attempt log is append-only with one row per graded attempt.
\* Every change of the log appends one row, made by a handler at its
\* log_question call, carrying the question it graded, the text it was sent
\* and the evaluator's verdict on the two; and while no database operation
\* has failed, the log has one row for every graded answer whose handler has
\* made the call.
C20_AttemptLogAppendOnly ==
    /\ [][question_history' # question_history =>
             \E t \in DOMAIN tasks :
                 /\ At(t, "log_question")
                 /\ question_history' = Append(question_history,
                        [user_id     |-> tasks[t].user_id,
                         question    |-> tasks[t].question_data.question,
                         answer      |-> tasks[t].content,
                         was_correct |-> Verdicts[tasks[t].content]
                                                 [tasks[t].question_data.question]])]_vars
    /\ [](Len(question_history) <= graded_count - Cardinality(NotLogged))
    /\ [](failures = 0 =>
             Len(question_history) = graded_count - Cardinality(NotLogged))

\* two answers to one question, the first wrong and the second right, have
\* been handled without a failure and make the two rows of the log
C20_Witness ==
    /\ tasks = <<>> /\ failures = 0 /\ graded_count = 2
    /\ Len(question_history) = 2
    /\ question_history[1].answer = "Cancel" /\ ~question_history[1].was_correct
    /\ question_history[2].answer = "5.0" /\ question_history[2].was_correct

\* C21: the stored rows change only through update_leaderboard, called for
\* a graded answer.  Every change of the leaderboard is the upsert of a
\* handler, writing that handler's user; no row is ever deleted, and a step
\* that is no step of a handler (a quest start, entering or leaving help
\* mode, a help-mode or ungraded message) leaves all rows as they are.
C21_RowsChangeOnlyByUpdate ==
    [][/\ DOMAIN leaderboard \subseteq DOMAIN leaderboard'
       /\ leaderboard' # leaderboard =>
             \E t \in DOMAIN tasks :
                 /\ At(t, "update_write")
                 /\ tasks' = UpdateReturns(t)
                 /\ \A user_id \in DOMAIN leaderboard :
                        user_id # tasks[t].user_id =>
                            leaderboard'[user_id] = leaderboard[user_id]
       /\ tasks' = tasks => leaderboard' = leaderboard]_vars

\* the row written for an incorrect answer is still there after the quest
\* has ended and the user has entered help mode
C21_Witness ==
    /\ tasks = <<>> /\ graded_count = 1
    /\ "u1" \in DOMAIN leaderboard /\ leaderboard["u1"] = Row(0, 0, 0)
    /\ "u1" \notin DOMAIN math_answers
    /\ InMathHelp(conversation_states, "u1")

\* C22: a sequential update matches its reference.  When the upsert of a
\* handler succeeds and the row it read is still the stored row (no other
\* write came between its read and its write), the stored row afterwards
\* is (max(0, p + delta), max(h, streak), c + 1 if correct else c), with
\* p, h, c the stored values, or zeros when there is no row; after a
\* correct answer with new streak n the stored highest_streak is >= n.
C22_SequentialUpdateReference ==
    [][\A t \in DOMAIN tasks :
          (/\ At(t, "update_write")
           /\ tasks' = UpdateReturns(t)
           /\ failures' = failures
           /\ tasks[t].result = SelectRow(leaderboard, tasks[t].user_id))
          => LET user_id == tasks[t].user_id
                 stored  == user_id \in DOMAIN leaderboard
                 p       == IF stored THEN leaderboard[user_id].points ELSE 0
                 h       == IF stored THEN leaderboard[user_id].highest_streak ELSE 0
                 c       == IF stored THEN leaderboard[user_id].total_correct ELSE 0
                 delta   == tasks[t].points_change
                 streak  == tasks[t].current_streak
             IN /\ user_id \in DOMAIN leaderboard'
                /\ leaderboard'[user_id].points =
                       (IF p + delta < 0 THEN 0 ELSE p + delta)
                /\ leaderboard'[user_id].highest_streak =
                       (IF h >= streak THEN h ELSE streak)
                /\ leaderboard'[user_id].total_correct =
                       (IF tasks[t].is_correct THEN c + 1 ELSE c)
                /\ tasks[t].is_correct =>
                       leaderboard'[user_id].highest_streak >= streak]_vars

\* a penalty has just been written over the row of an earlier correct
\* answer: 12 - 5 points, highest streak still 1, one correct answer
C22_Witness ==
    /\ failures = 0 /\ Len(tasks) = 1
    /\ tasks[1].pc = "log_question" /\ ~tasks[1].is_correct
    /\ tasks[1].user_id \in DOMAIN leaderboard
    /\ leaderboard[tasks[1].user_id] = Row(7, 1, 1)
    /\ Len(question_history) = 1 /\ question_history[1].was_correct

\* C23: the evaluation of an answer runs off the dispatch path.  A handler
\* that takes up an answer would then be suspended at the evaluation, with
\* the verdict still to come, so that the message of another user can be
\* taken up meanwhile.  In the code the verdict is computed inside the
\* step that takes the message: the new handler is already past it.
C23_EvaluationOffDispatchPath ==
    [][Graded => NewTask.pc = "is_answer_correct"]_vars

\* the call has returned
Returned == evaluation.pc = "returned"

\* the call was made with these arguments
Called(user_answer, correct_answer_str) ==
    /\ evaluation.user_answer = Text[user_answer]
    /\ evaluation.correct_answer_str = Text[correct_answer_str]

Blank(s) == \A i \in 1..Len(s) : s[i] \in Whitespace

\* C24: an empty answer is never correct.  Whatever the accepted string, a
\* call whose candidate is empty or all whitespace returns false in its
\* first step, before the literal, numeric or symbolic comparison.
C24_EmptyNeverCorrect ==
    /\ [](Returned /\ Blank(evaluation.user_answer) => ~evaluation.result)
    /\ [][evaluation.pc = "normalize" /\ Blank(evaluation.user_answer)
             => evaluation'.pc = "returned" /\ ~evaluation'.result]_vars

C24_Witness ==
    /\ Returned /\ ~evaluation.result
    /\ Called("   ", "42")

\* C25: literal match over the accepted forms.  The forms are the trimmed
\* pieces of the lowercased, trimmed accepted string split on ' or '; a
\* candidate that, lowercased and trimmed, equals one of them is correct,
\* in whatever order the forms are written: against '5 or x=5' and against
\* 'x=5 or 5', '5' and 'X=5' are correct and '6' is not.
C25_LiteralMatch ==
    Returned =>
        /\ \A piece \in SplitOr(Strip(Lower(evaluation.correct_answer_str))) :
               Strip(Lower(evaluation.user_answer)) = Strip(piece)
                   /\ ~Blank(evaluation.user_answer) => evaluation.result
        /\ \A correct_answer_str \in {"5 or x=5", "x=5 or 5"} :
               /\ Called("5", correct_answer_str) => evaluation.result
               /\ Called("X=5", correct_answer_str) => evaluation.result
               /\ Called("6", correct_answer_str) => ~evaluation.result

C25_Witness ==
    /\ Returned /\ evaluation.result
    /\ Called("X=5", "5 or x=5")

\* the forms of the accepted string that are numbers, commas removed
NumericForms(correct_answer_str) ==
    {ParseFloat(RemoveChar(Strip(piece), ",")) :
        piece \in SplitOr(Strip(Lower(correct_answer_str)))}

\* |a-b| <= tol*max(|a|,|b|) or |a-b| <= tol, on fractions, tol = 1e-6
WithinTolerance(a, b) ==
    LET diff == Abs(a.num * b.den - b.num * a.den)
    IN \/ diff <= (Abs(a.num) * b.den) \div 1000000
       \/ diff <= (Abs(b.num) * a.den) \div 1000000
       \/ diff <= (a.den * b.den) \div 1000000

\* C26: the numeric rule.  When the candidate, commas removed, is a
\* number a, the numeric step accepts it exactly when some accepted form,
\* commas removed, is a number b with |a-b| <= max(tol*max(|a|,|b|), tol),
\* tol = 1e-6; forms that are no numbers are passed over, and when no form
\* is close the call goes on to the symbolic step.
C26_NumericRule ==
    [][/\ evaluation.pc = "numeric"
       /\ ParseFloat(RemoveChar(Strip(Lower(evaluation.user_answer)), ",")).ok
       => LET a == ParseFloat(RemoveChar(Strip(Lower(evaluation.user_answer)), ","))
              accepts == \E b \in NumericForms(evaluation.correct_answer_str) :
                             b.ok /\ WithinTolerance(a, b)
          IN /\ accepts => evaluation'.pc = "returned" /\ evaluation'.result
             /\ ~accepts => evaluation'.pc = "heuristic"]_vars

\* 78.54005 is within the relative tolerance of 78.54, not the absolute one
C26_Witness ==
    /\ Returned /\ evaluation.result
    /\ Called("78.54005", "78.54")

\* C27: the tolerance example.  Against the single accepted form 78.54 the
\* candidate 78.5399 is correct and the candidate 79 is incorrect.
C27_ToleranceExample ==
    Returned =>
        /\ Called("78.5399", "78.54") => evaluation.result
        /\ Called("79", "78.54") => ~evaluation.result

\* C28: a failure is local to one pair.  The loop over the algebraic forms
\* gives up with false only when every form has been compared: a pair that
\* raises is passed over like a pair that does not match.
C28_FailureLocalToPair ==
    [][/\ evaluation.pc = "pairs"
       /\ evaluation'.pc = "returned"
       /\ ~evaluation'.result
       => evaluation.algebraic_possible_answers = {}]_vars

C30_SymbolicEquivalence ==
    Returned =>
        /\ Called("(x-3)(x+3)", "(x+3)(x-3)") => evaluation.result
        /\ Called("x**2 - x - 6", "x^2 - x - 6") => evaluation.result
        /\ Called("x**2 + x - 6", "x^2 - x - 6") => ~evaluation.result
        /\ Called("x**2-9", "(x+3)(x-3)") => evaluation.result
        /\ Called("x**2-9", "x^2 - x - 6") => ~evaluation.result

C30_Witness ==
    /\ Returned /\ evaluation.result
    /\ Called("x**2 - x - 6", "x^2 - x - 6")

\* C31: normalisation is idempotent.  Lowercasing and trimming the
\* arguments of a call a second time gives what the first time gave, for
\* the candidate and for the accepted string.
C31_NormalizeIdempotent ==
    /\ Normalize(Normalize(evaluation.user_answer)) = Normalize(evaluation.user_answer)
    /\ Normalize(Normalize(evaluation.correct_answer_str))
           = Normalize(evaluation.correct_answer_str)

\* a call has normalised a candidate with capitals and spaces around it
C31_Witness ==
    /\ Returned
    /\ evaluation.user_answer = Text["  X = 5 "]
    /\ Normalize(evaluation.user_answer) = Text["x = 5"]
    /\ Normalize(evaluation.user_answer) # evaluation.user_answer

\* C32: quiz session and help mode never coexist.  In every reachable
\* state no user is both in the help-mode map and owner of a quiz session.
C32_SessionAndHelpDisjoint ==
    \A user_id \in Users :
        ~(user_id \in DOMAIN math_answers /\ InMathHelp(conversation_states, user_id))

\* C33: session teardown never fails.  Whenever a handler of an incorrect
\* answer has made its two storage calls and comes to delete the session
\* of its user, the session is still there.
C33_TeardownFindsSession ==
    \A t \in DOMAIN tasks :
        At(t, "finish") /\ ~tasks[t].is_correct
            => tasks[t].user_id \in DOMAIN math_answers

\* C34: a storage failure leaves the stored score unchanged.  A step in
\* which a database operation fails changes no row, and a handler whose
\* read of an existing row fails is not left to write values computed
\* from the all-zero defaults over that row.
C34_FailureKeepsScore ==
    [][/\ failures' > failures => leaderboard' = leaderboard
       /\ \A t \in DOMAIN tasks :
              (/\ At(t, "update_read")
               /\ failures' > failures
               /\ tasks[t].user_id \in DOMAIN leaderboard)
              => ~(/\ tasks'[t].pc = "update_write"
                   /\ ~tasks'[t].result.found)]_vars

\* SELECT COUNT(*) FROM question_history WHERE user_id = ?
total_attempted(user_id) ==
    Cardinality({i \in DOMAIN question_history : question_history[i].user_id = user_id})

\* a message '!mystats' of the user would reach command dispatch: the user
\* has no session and is not in help mode
MystatsCanRead(user_id) ==
    /\ user_id \notin DOMAIN math_answers
    /\ ~InMathHelp(conversation_states, user_id)

\* C35: the aggregate never runs ahead of the log.  In every state in
\* which mystats of a user can read the database, the total_correct of
\* the user's row is at most the number of the user's question_history
\* rows.
C35_AggregateWithinLog ==
    \A user_id \in Users :
        MystatsCanRead(user_id) /\ user_id \in DOMAIN leaderboard
            => leaderboard[user_id].total_correct <= total_attempted(user_id)

\* C36: live streak and session agree.  In every state in which no
\* handler of a user is suspended, a user with a session has the session
\* streak equal to the live counter (0 when absent), and a user without a
\* session has no live counter.
C36_StreakAndSessionAgree ==
    \A user_id \in Users :
        Quiescent(user_id) =>
            IF user_id \in DOMAIN math_answers
            THEN math_answers[user_id].streak =
                     (IF user_id \in DOMAIN question_streaks
                      THEN question_streaks[user_id] ELSE 0)
            ELSE user_id \notin DOMAIN question_streaks

\* C37: while a user has a quiz session and is not in help mode, every
\* message of the user is graded as an answer and none reaches command
\* dispatch, a valid command or a text with a help trigger included: a
\* step that grades nothing and moves no handler leaves the session and
\* the mode of such a user as they are.
C37_SessionMessagesAreGraded ==
    /\ [](\A user_id \in Users, content \in Contents :
              user_id \in DOMAIN math_answers /\ ~InMathHelp(conversation_states, user_id)
                  => Route(math_answers, conversation_states, user_id, content) = "grade")
    /\ [][\A user_id \in Users :
              (/\ user_id \in DOMAIN math_answers
               /\ ~InMathHelp(conversation_states, user_id)
               /\ tasks' = tasks)
              => /\ user_id \in DOMAIN math_answers'
                 /\ math_answers'[user_id] = math_answers[user_id]
                 /\ ~InMathHelp(conversation_states', user_id)]_vars

\* the valid command !mathquest, sent during a session, was graded (as an
\* incorrect answer) and not dispatched
C37_Witness ==
    \E t \in DOMAIN tasks :
        /\ tasks[t].content = "!mathquest"
        /\ ContentFacts[tasks[t].content].valid
        /\ ~tasks[t].is_correct
        /\ tasks[t].pc = "update_read"

\* what the bot holds for one user: session, mode, live streak, row and
\* attempt rows
UserData(answers, states, streaks, board, history, user_id) ==
    [session |-> IF user_id \in DOMAIN answers THEN <<answers[user_id]>> ELSE <<>>,
     mode    |-> IF user_id \in DOMAIN states THEN <<states[user_id]>> ELSE <<>>,
     streak  |-> IF user_id \in DOMAIN streaks THEN <<streaks[user_id]>> ELSE <<>>,
     row     |-> SelectRow(board, user_id),
     rows    |-> SelectSeq(history, LAMBDA r : r.user_id = user_id)]

DataChanges(user_id) ==
    UserData(math_answers', conversation_states', question_streaks', leaderboard',
             question_history', user_id)
        # UserData(math_answers, conversation_states, question_streaks, leaderboard,
                   question_history, user_id)

\* C38: per-user isolation.  A step of a handler of user A (a graded
\* answer, its score update, its attempt log, its completion) changes the
\* session, mode, live streak, row and attempt rows of no other user, and
\* a step that moves no handler (a quest start, entering or leaving help
\* mode) changes those of one user at most.
C38_PerUserIsolation ==
    [][/\ Graded => \A B \in Users \ {NewTask.user_id} : ~DataChanges(B)
       /\ \A t \in DOMAIN tasks :
              (\/ tasks' = TaskEnds(t)
               \/ /\ Len(tasks') = Len(tasks)
                  /\ tasks'[t] # tasks[t]
                  /\ \A k \in DOMAIN tasks \ {t} : tasks'[k] = tasks[k])
              => \A B \in Users \ {tasks[t].user_id} : ~DataChanges(B)
       /\ tasks' = tasks =>
              \A A, B \in Users : DataChanges(A) /\ DataChanges(B) => A = B]_vars

\* both users have a session, a live streak, a row and an attempt row, and
\* a handler of each is in flight
C38_Witness ==
    /\ \A user_id \in Users :
           /\ user_id \in DOMAIN math_answers
           /\ user_id \in DOMAIN leaderboard
           /\ total_attempted(user_id) = 0
    /\ Len(tasks) = 2 /\ tasks[1].user_id # tasks[2].user_id
    /\ tasks[1].pc = "log_question" /\ tasks[2].pc = "log_question"

====
